---- MODULE Spec2Model ----
(***************************************************************************)
(* ThermoEye: the per-frame analytics engine (engine.py) and the ingestion *)
(* loop, start/stop/set_params handlers and shared session state (app.py). *)
(*                                                                         *)
(* Numbers.  Thresholds and opacities are integers in percent (0.45 is     *)
(* 45).  An image is abstracted to a count of pixels: a grayscale frame is *)
(* the number of its bright pixels (two frames with b1 and b2 bright       *)
(* pixels differ in |b1 - b2| pixels), a foreground mask is the number of  *)
(* its foreground pixels inside the grid cells and outside them.  A raw    *)
(* density is kept as the numerator of a fraction whose denominator is     *)
(* DensityDen, so that halving is exact; a smoothed density is the pair    *)
(* (sum of the history, length of the history).  Arithmetic is exact (the  *)
(* rounding of Python floats is not modelled).  Time is an integer clock   *)
(* of seconds.  The mean of the density samples (avg_density) is kept as   *)
(* the list of the samples it averages.                                    *)
(***************************************************************************)
EXTENDS Integers, Sequences, FiniteSets, TLC

VARIABLES
    now,        \* time.time(), in whole seconds
    source,     \* state["source"]
    cap,        \* state["cap"]: the capture handle, or NoCap
    running,    \* state["running"]
    frame_id,   \* state["frame_id"]
    frame,      \* state["frame"]: the single-slot frame buffer
    engine,     \* state["engine"]: a ThermoEye object, or NoEngine
    mqtt,       \* state["mqtt"]: "none", "open" or "closed"
    active_stream_id,   \* state["active_stream_id"]
    stats,      \* state["stats"]
    alerts_history,     \* the length of the alerts_history list
    lock,       \* state["lock"]: "free" or the thread that holds it
    readers,    \* the gen_mjpeg generators being served
    env,        \* what the run is given: the frame geometry, the form
                \* values the operator submits, the scene in front of the
                \* camera
    workers,    \* the video_loop threads spawned so far, in order
    starter,    \* the start() request in flight and its locals
    startsLeft, \* start() calls the environment still makes
    itersLeft,  \* loop iterations the workers may still begin
    emitted,    \* observation: the AlertEvents the last step handed to the sink
    watch       \* observation of the session's frames: the time of the last
                \* HIGH event (0: none), whether every frame since was over
                \* the threshold, whether every mask so far was empty, and
                \* the frames fed to the engine since its construction or
                \* last reset

vars == <<now, source, cap, running, frame_id, frame, engine, mqtt,
          active_stream_id, stats, alerts_history, lock, readers, env,
          workers, starter, startsLeft, itersLeft, emitted, watch>>

\* the bookkeeping of the dashboard
book == <<active_stream_id, stats, alerts_history>>

\* the frame hand-off to the MJPEG generators
feed == <<lock, readers>>

----------------------------------------------------------------------------
(* Bounds of the model *)

StartTime == 1          \* the clock's first value (time.time() is never 0)
MaxTime == 5            \* the clock stops here
MaxIters == 4           \* loop iterations the workers begin in Spec
MaxLoopIters == 3       \* loop iterations the workers begin in SpecLoop
MaxStarts == 2          \* start() calls in SpecLoop
FileLen == 2            \* frames of the finite file source
FrameH == 75            \* frame height in pixels
FrameW == 200           \* frame width in pixels
NarrowW == 160          \* width of the frames of a low-resolution source
MaxShortIters == 4      \* loop iterations under a busy scene
MaxLongIters == 17      \* loop iterations under the scripted scene
PanEvery == 4           \* the scripted scene cuts at every PanEvery-th frame
MaxReaders == 2         \* MJPEG generators served at once
MaxFeedIters == 2       \* loop iterations while generators are served
MaxRestartIters == 2    \* loop iterations in SpecRestart

----------------------------------------------------------------------------
(* engine.py: ThermoEye *)

grid_size == 25
HistoryMaxLen == 15
DefaultCooldown == 3
ClearHysteresis == 2
PixelsPerPerson == 800
LegendOffset == 180     \* legend_x = w - 180
LegendTop == 20         \* legend_y
LegendHeight == 30      \* rows of the colour legend
MaxSamples == 100       \* density_samples keeps the last 100

NoEngine == [none |-> TRUE]
NoGray == -1

Max2(a, b) == IF a >= b THEN a ELSE b
Min2(a, b) == IF a <= b THEN a ELSE b
AbsDiff(a, b) == IF a >= b THEN a - b ELSE b - a

RECURSIVE SumSeq(_)
SumSeq(s) == IF s = <<>> THEN 0 ELSE Head(s) + SumSeq(Tail(s))

\* the pixels of a frame
FramePixels == env.h * env.w

\* gh, gw of process_frame and the pixels the grid covers
GridRows == env.h \div grid_size
GridCols == env.w \div grid_size
GridPixels == GridRows * GridCols * grid_size * grid_size
EdgePixels == FramePixels - GridPixels

\* A raw density n stands for n / DensityDen.
DensityDen == 2 * GridPixels

\* ThermoEye.__init__
NewEngine(thr, op) ==
    [density_threshold |-> thr,
     heatmap_opacity   |-> op,
     alert_cooldown    |-> DefaultCooldown,
     bg_subtractor     |-> "fresh",
     density_history   |-> <<>>,
     estimated_people  |-> 0,
     current_density   |-> [sum |-> 0, len |-> 1],
     prev_gray         |-> NoGray,
     last_alert_time   |-> 0,
     alert_active      |-> FALSE]

\* reset that keeps the density history
reset_keeps_history(e) ==
    [e EXCEPT !.bg_subtractor = "fresh",
              !.prev_gray = NoGray,
              !.alert_active = FALSE]

\* reset that keeps the previous-frame reference
reset_keeps_prev_gray(e) ==
    [e EXCEPT !.bg_subtractor = "fresh",
              !.density_history = <<>>,
              !.alert_active = FALSE]

\* ThermoEye.reset
reset(e) ==
    [e EXCEPT !.bg_subtractor = "fresh",
              !.prev_gray = NoGray,
              !.density_history = <<>>,
              !.alert_active = FALSE]

\* a pan detector that never flags a frame
detect_camera_pan_never(e, gray) ==
    [eng |-> [e EXCEPT !.prev_gray = gray], pan |-> FALSE]

\* ThermoEye.detect_camera_pan: the new engine and the returned flag
detect_camera_pan(e, gray) ==
    [eng |-> [e EXCEPT !.prev_gray = gray],
     pan |-> IF e.prev_gray = NoGray
             THEN FALSE
             ELSE 10 * AbsDiff(e.prev_gray, gray) > 6 * FramePixels]

\* current_density > density_threshold, thr in percent
Over(cd, thr) == cd.sum * 100 > thr * cd.len * DensityDen

\* current_density < density_threshold (the colour of the density text)
Under(cd, thr) == cd.sum * 100 < thr * cd.len * DensityDen

AlertPayload(e, fid, t, status) ==
    [status |-> status, frame_id |-> fid, timestamp |-> t,
     estimated_people |-> e.estimated_people]

\* maybe_send_alert with the cooldown test left out: HIGH on every frame over
\* the threshold
maybe_send_alert_no_cooldown(e, fid, t) ==
    LET over == Over(e.current_density, e.density_threshold)
        e1   == IF over
                THEN [e EXCEPT !.last_alert_time = t, !.alert_active = TRUE]
                ELSE e
        clear == ~over /\ e1.alert_active
                   /\ t - e1.last_alert_time >= ClearHysteresis
        e2   == IF clear
                THEN [e1 EXCEPT !.last_alert_time = t, !.alert_active = FALSE]
                ELSE e1
    IN  [eng |-> e2,
         events |-> (IF over THEN <<AlertPayload(e, fid, t, "HIGH")>> ELSE <<>>)
                    \o (IF clear THEN <<AlertPayload(e1, fid, t, "CLEAR")>>
                        ELSE <<>>)]

\* maybe_send_alert with the 2-second test left out: CLEAR as soon as the
\* density is at or below the threshold
maybe_send_alert_no_hysteresis(e, fid, t) ==
    LET over == Over(e.current_density, e.density_threshold)
        high == over /\ (~e.alert_active
                           \/ t - e.last_alert_time >= e.alert_cooldown)
        e1   == IF high
                THEN [e EXCEPT !.last_alert_time = t, !.alert_active = TRUE]
                ELSE e
        clear == ~over /\ e1.alert_active
        e2   == IF clear
                THEN [e1 EXCEPT !.last_alert_time = t, !.alert_active = FALSE]
                ELSE e1
    IN  [eng |-> e2,
         events |-> (IF high THEN <<AlertPayload(e, fid, t, "HIGH")>> ELSE <<>>)
                    \o (IF clear THEN <<AlertPayload(e1, fid, t, "CLEAR")>>
                        ELSE <<>>)]

\* maybe_send_alert whose CLEAR branch does not test alert_active
maybe_send_alert_clear_unguarded(e, fid, t) ==
    LET over == Over(e.current_density, e.density_threshold)
        high == over /\ (~e.alert_active
                           \/ t - e.last_alert_time >= e.alert_cooldown)
        e1   == IF high
                THEN [e EXCEPT !.last_alert_time = t, !.alert_active = TRUE]
                ELSE e
        clear == ~over /\ t - e1.last_alert_time >= ClearHysteresis
        e2   == IF clear
                THEN [e1 EXCEPT !.last_alert_time = t, !.alert_active = FALSE]
                ELSE e1
    IN  [eng |-> e2,
         events |-> (IF high THEN <<AlertPayload(e, fid, t, "HIGH")>> ELSE <<>>)
                    \o (IF clear THEN <<AlertPayload(e1, fid, t, "CLEAR")>>
                        ELSE <<>>)]

\* ThermoEye.maybe_send_alert at time t: the new engine and the events
\* handed to the sink, in order
maybe_send_alert(e, fid, t) ==
    LET over == Over(e.current_density, e.density_threshold)
        high == over /\ (~e.alert_active
                           \/ t - e.last_alert_time >= e.alert_cooldown)
        e1   == IF high
                THEN [e EXCEPT !.last_alert_time = t, !.alert_active = TRUE]
                ELSE e
        clear == ~over /\ e1.alert_active
                   /\ t - e1.last_alert_time >= ClearHysteresis
        e2   == IF clear
                THEN [e1 EXCEPT !.last_alert_time = t, !.alert_active = FALSE]
                ELSE e1
    IN  [eng |-> e2,
         events |-> (IF high THEN <<AlertPayload(e, fid, t, "HIGH")>> ELSE <<>>)
                    \o (IF clear THEN <<AlertPayload(e1, fid, t, "CLEAR")>>
                        ELSE <<>>)]

\* an append that evicts the newest entry of a full history
HistoryAppend_DropNewest(h, x) ==
    IF Len(h) >= HistoryMaxLen THEN SubSeq(h, 1, Len(h) - 1) \o <<x>>
    ELSE Append(h, x)

\* deque(maxlen=15).append
HistoryAppend(h, x) ==
    IF Len(h) >= HistoryMaxLen THEN Tail(h) \o <<x>> ELSE Append(h, x)

\* the occupant estimate halved before the division by 3.5
EstimatePeople_HalvedFirst(total_fg, pan) ==
    LET p1 == Max2(1, total_fg \div PixelsPerPerson)
        p0 == IF pan THEN p1 \div 2 ELSE p1
    IN  Max2(1, (2 * p0) \div 7)

\* the occupant estimate of process_frame
EstimatePeople(total_fg, pan) ==
    LET p1 == Max2(1, total_fg \div PixelsPerPerson)
        p2 == Max2(1, (2 * p1) \div 7)
    IN  IF pan THEN p2 \div 2 ELSE p2

\* overall_density of process_frame (lines 139-151) as a numerator over
\* DensityDen: the mean of the grid cells' foreground ratios, halved on a pan
RawDensity(mask, pan) == IF pan THEN mask.inGrid ELSE 2 * mask.inGrid

\* display[legend_y:legend_y+30, legend_x:legend_x+160] = gradient_colored
\* (line 198) raises unless the frame has room for the legend
LegendFits == env.w >= LegendOffset /\ env.h >= LegendTop + LegendHeight

\* ThermoEye.process_frame on a frame img whose foreground mask (the background
\* subtractor's output after the morphology) is mask: the new engine, the
\* events, the composited display, and whether the call raised while
\* compositing (lines 163-200), which is before maybe_send_alert
process_frame(e, img, mask, fid, t) ==
    LET d    == detect_camera_pan(e, img.gray)
        raw  == RawDensity(mask, d.pan)
        hist == HistoryAppend(e.density_history, raw)
        cd   == [sum |-> SumSeq(hist), len |-> Len(hist)]
        e1   == [d.eng EXCEPT !.bg_subtractor = "trained",
                              !.density_history = hist,
                              !.current_density = cd,
                              !.estimated_people =
                                  EstimatePeople(mask.inGrid + mask.outGrid, d.pan)]
        a    == maybe_send_alert(e1, fid, t)
    IN  IF LegendFits
        THEN [eng |-> a.eng,
              events |-> a.events,
              pan |-> d.pan,
              raised |-> FALSE,
              display |-> [image |-> img,
                           opacity |-> e1.heatmap_opacity,
                           panning |-> d.pan,
                           banner |-> Over(cd, e1.density_threshold)]]
        ELSE [eng |-> e1,
              events |-> <<>>,
              pan |-> d.pan,
              raised |-> TRUE,
              display |-> [none |-> TRUE]]

----------------------------------------------------------------------------
(* Inputs: sources, frames, masks, form values *)

\* A source descriptor: whether it is a Python str, its URL scheme and its
\* extension as written.
CameraIndex == [isStr |-> FALSE, scheme |-> "", ext |-> ""]
StreamUrl   == [isStr |-> TRUE, scheme |-> "rtsp://", ext |-> ""]
VideoFile   == [isStr |-> TRUE, scheme |-> "", ext |-> ".MP4"]
Sources == {CameraIndex, StreamUrl, VideoFile}
NoSource == [none |-> TRUE]

ALLOWED_EXT == {".mp4", ".avi", ".mov", ".mkv", ".flv"}

\* str.lower on the extensions in use
Lower(ext) == IF ext = ".MP4" THEN ".mp4" ELSE ext

\* state["source"].lower().endswith(tuple(ALLOWED_EXT))
EndsWithAllowedExt(src) == Lower(src.ext) \in ALLOWED_EXT

\* open_capture's choice of decoder
Backend(src) ==
    IF src.isStr /\ (src.scheme \in {"rtsp://", "rtmp://", "http://", "https://"}
                       \/ src.ext = ".m3u8")
    THEN "CAP_FFMPEG" ELSE "default"

\* A finite source holds FileLen frames; its last frame is a scene cut.
IsFinite(src) == src = VideoFile
FileGray(k) == IF k = FileLen THEN FramePixels ELSE 0
FileFrame(k) == [idx |-> k, gray |-> FileGray(k)]

\* What a live source delivers as its frame number k: a still scene, a busy
\* scene that may cut at any frame, or the scripted scene, which cuts at
\* every PanEvery-th frame
LiveGrays(k) ==
    CASE env.scene = "still" -> {0}
      [] env.scene = "busy"  -> {0, FramePixels}
      [] env.scene = "march" -> {IF k % PanEvery = 0 THEN FramePixels ELSE 0}
LiveFrames(k) == {[idx |-> 0, gray |-> g] : g \in LiveGrays(k)}

\* Foreground masks the background subtractor may return for frame number
\* k: nothing, a blob smaller than one person, everything; in the scripted
\* scene a crowd that grows by one grid cell per frame
EmptyMask == [inGrid |-> 0, outGrid |-> 0]
SmallMask == [inGrid |-> PixelsPerPerson \div 2, outGrid |-> 0]
FullMask  == [inGrid |-> GridPixels, outGrid |-> EdgePixels]
MarchMask(k) ==
    [inGrid |-> Min2(k, GridRows * GridCols) * grid_size * grid_size,
     outGrid |-> 0]
Masks(k) ==
    CASE env.scene = "still" -> {EmptyMask, FullMask}
      [] env.scene = "busy"  -> {EmptyMask, SmallMask, FullMask}
      [] env.scene = "march" -> {MarchMask(k)}

\* Form values of threshold and opacity, in percent; BadInput is a value
\* float() rejects
Num(v) == [num |-> TRUE, v |-> v]
BadInput == [num |-> FALSE, v |-> 0]
ThrInputs == {BadInput, Num(-5), Num(120)}
OpInputs == {Num(70)}
WideThrInputs == {BadInput, Num(-5), Num(60), Num(120)}
WideOpInputs == {BadInput, Num(10), Num(55), Num(150)}

\* What a run is given: the geometry of the frames, the sources the
\* operator picks from, the form values submitted, the scene
Env(h, w, srcs, thr, op, scene) ==
    [h |-> h, w |-> w, sources |-> srcs, thr |-> thr, op |-> op,
     scene |-> scene]
PlainEnv == Env(FrameH, FrameW, Sources, ThrInputs, OpInputs, "still")

NoCap == [none |-> TRUE]
NoFrame == [none |-> TRUE]

\* open_capture(source): a new handle; opened is isOpened(), owner is the
\* session the handle was opened for (an observation)
open_capture(src, opened, owner) ==
    [src |-> src, backend |-> Backend(src), opened |-> opened,
     released |-> FALSE, pos |-> 0, owner |-> owner]

\* VideoCapture.release
release(c) == [c EXCEPT !.released = TRUE]

\* the clamp without its lower bound
Clamp_NoFloor(lo, hi, v) == Min2(hi, v)

\* max(lo, min(hi, v))
Clamp(lo, hi, v) == Max2(lo, Min2(hi, v))

\* the threshold and opacity start() gives the engine
StartParams(thrIn, opIn) ==
    IF ~thrIn.num \/ ~opIn.num
    THEN [thr |-> 45, op |-> 70]
    ELSE [thr |-> Clamp(0, 100, thrIn.v), op |-> Clamp(30, 100, opIn.v)]

----------------------------------------------------------------------------
(* app.py: the session state and its threads *)

\* No start() request in flight; flash is the message of the last request,
\* cap the handle it opened and did not install
Idle == [pc |-> "idle", flash |-> "", cap |-> NoCap]

\* What has been seen of the engine since it was built: when it last emitted
\* HIGH, whether every frame since was over the threshold, whether every mask
\* was empty, the frames fed since the last reset, and the statuses of the
\* events it emitted, in order
NoWatch ==
    [lastHigh |-> 0, overSince |-> FALSE, still |-> TRUE, fed |-> <<>>,
     trail |-> <<>>]

\* the statuses of a list of events
Statuses(events) == [i \in 1..Len(events) |-> events[i].status]

IsHigh(events) == \E i \in 1..Len(events) : events[i].status = "HIGH"
IsClear(events) == \E i \in 1..Len(events) : events[i].status = "CLEAR"

Workers == 1..Len(workers)
Readers == 1..Len(readers)

\* the session a worker was spawned for is its index; stale counts the
\* frames a worker processed while running was false (an observation)
Session(w) == w

\* state["stats"]; uptime_start is whether a start time is recorded
NoStats ==
    [peak_density |-> [sum |-> 0, len |-> 1],
     avg_density |-> <<>>,
     total_alerts |-> 0,
     uptime_start |-> FALSE]

\* stream_id of start(): set for a source picked from the configured streams
StreamId(src) == IF src.isStr /\ src.scheme # "" THEN "cam1" ELSE "none"

\* state["lock"]
Free == [kind |-> "none", id |-> 0]
HeldByWorker(w) == [kind |-> "worker", id |-> w]
HeldByReader(r) == [kind |-> "reader", id |-> r]

\* a gen_mjpeg generator at the top of its loop
NewReader == [pc |-> "acquire", frame |-> NoFrame]

\* The state at import: the state dict as written, starts start() calls
\* and iters loop iterations to come, n generators being served
Boot(starts, iters, n, e) ==
    /\ now = StartTime
    /\ source = NoSource
    /\ cap = NoCap
    /\ running = FALSE
    /\ frame_id = 0
    /\ frame = NoFrame
    /\ engine = NoEngine
    /\ mqtt = "none"
    /\ active_stream_id = "none"
    /\ stats = NoStats
    /\ alerts_history = 0
    /\ lock = Free
    /\ readers = [r \in 1..n |-> NewReader]
    /\ env = e
    /\ workers = <<>>
    /\ starter = Idle
    /\ startsLeft = starts
    /\ itersLeft = iters
    /\ emitted = <<>>
    /\ watch = NoWatch

Init == Boot(MaxStarts, MaxLoopIters, 0, PlainEnv)

Tick ==
    /\ now < MaxTime
    /\ now' = now + 1
    /\ emitted' = <<>>
    /\ UNCHANGED <<source, cap, running, frame_id, frame, engine, mqtt,
                   workers, starter, startsLeft, itersLeft, watch>>
    /\ UNCHANGED <<book, feed, env>>

\* start() clearing the running flag before it knows the source opens
Start_Open_HaltFirst ==
    /\ starter.pc = "idle"
    /\ startsLeft > 0
    /\ startsLeft' = startsLeft - 1
    /\ running' = FALSE
    /\ \E src \in env.sources, thrIn \in env.thr, opIn \in env.op,
          opened \in BOOLEAN :
         /\ starter' =
              IF opened
              THEN [pc |-> "opened",
                    src |-> src,
                    form |-> [thr |-> thrIn, op |-> opIn],
                    params |-> StartParams(thrIn, opIn),
                    cap |-> open_capture(src, TRUE, Len(workers) + 1)]
              ELSE [pc |-> "idle",
                    flash |-> "Cannot open video source",
                    cap |-> open_capture(src, FALSE, Len(workers) + 1)]
         /\ emitted' = <<>>
    /\ UNCHANGED <<now, source, cap, frame_id, frame, engine, mqtt,
                   workers, itersLeft, watch>>
    /\ UNCHANGED <<book, feed, env>>

\* start(), lines 342-358: the engine is built and the source opened; a
\* source that cannot be opened ends the request
Start_Open ==
    /\ starter.pc = "idle"
    /\ startsLeft > 0
    /\ startsLeft' = startsLeft - 1
    /\ \E src \in env.sources, thrIn \in env.thr, opIn \in env.op,
          opened \in BOOLEAN :
         /\ starter' =
              IF opened
              THEN [pc |-> "opened",
                    src |-> src,
                    form |-> [thr |-> thrIn, op |-> opIn],
                    params |-> StartParams(thrIn, opIn),
                    cap |-> open_capture(src, TRUE, Len(workers) + 1)]
              ELSE [pc |-> "idle",
                    flash |-> "Cannot open video source",
                    cap |-> open_capture(src, FALSE, Len(workers) + 1)]
         /\ emitted' = <<>>
    /\ UNCHANGED <<now, source, cap, running, frame_id, frame, engine, mqtt,
                   workers, itersLeft, watch>>
    /\ UNCHANGED <<book, feed, env>>

\* start(), lines 360-361
Start_Halt ==
    /\ starter.pc = "opened"
    /\ running' = FALSE
    /\ starter' = [starter EXCEPT !.pc = "halted"]
    /\ emitted' = <<>>
    /\ UNCHANGED <<now, source, cap, frame_id, frame, engine, mqtt, workers,
                   startsLeft, itersLeft, watch>>
    /\ UNCHANGED <<book, feed, env>>

\* start(), line 363
Start_SetSource ==
    /\ starter.pc = "halted"
    /\ source' = starter.src
    /\ starter' = [starter EXCEPT !.pc = "source_set"]
    /\ emitted' = <<>>
    /\ UNCHANGED <<now, cap, running, frame_id, frame, engine, mqtt, workers,
                   startsLeft, itersLeft, watch>>
    /\ UNCHANGED <<book, feed, env>>

\* start(), line 364
Start_SetCap ==
    /\ starter.pc = "source_set"
    /\ cap' = starter.cap
    /\ starter' = [starter EXCEPT !.pc = "cap_set"]
    /\ emitted' = <<>>
    /\ UNCHANGED <<now, source, running, frame_id, frame, engine, mqtt,
                   workers, startsLeft, itersLeft, watch>>
    /\ UNCHANGED <<book, feed, env>>

\* start(), lines 365-369
Start_SetEngine ==
    /\ starter.pc = "cap_set"
    /\ engine' = NewEngine(starter.params.thr, starter.params.op)
    /\ mqtt' = "open"
    /\ frame_id' = 0
    /\ frame' = NoFrame
    /\ active_stream_id' = StreamId(starter.src)
    /\ starter' = [starter EXCEPT !.pc = "installed"]
    /\ emitted' = <<>>
    /\ watch' = NoWatch
    /\ UNCHANGED <<now, source, cap, running, workers, startsLeft, itersLeft>>
    /\ UNCHANGED <<stats, alerts_history, feed, env>>

\* start(), lines 370-378: running is set, the session's statistics are
\* cleared and the worker thread started
Start_Run ==
    /\ starter.pc = "installed"
    /\ running' = TRUE
    /\ stats' = [stats EXCEPT !.uptime_start = TRUE,
                              !.peak_density = NoStats.peak_density,
                              !.avg_density = <<>>]
    /\ workers' = Append([w \in Workers |-> [workers[w] EXCEPT !.stale = 0]],
                          [pc |-> "check", img |-> NoFrame,
                           processed |-> NoFrame, stale |-> 0,
                           density_samples |-> <<>>])
    /\ starter' = [pc |-> "idle",
                   flash |-> "Stream started successfully",
                   cap |-> NoCap]
    /\ emitted' = <<>>
    /\ UNCHANGED <<now, source, cap, frame_id, frame, engine, mqtt,
                   startsLeft, itersLeft, watch>>
    /\ UNCHANGED <<active_stream_id, alerts_history, feed, env>>

\* stop()
Stop ==
    /\ running' = FALSE
    /\ stats' = [stats EXCEPT !.uptime_start = FALSE]
    /\ mqtt' = IF mqtt = "none" THEN "none" ELSE "closed"
    /\ emitted' = <<>>
    /\ UNCHANGED <<now, source, cap, frame_id, frame, engine, workers,
                   starter, startsLeft, itersLeft, watch>>
    /\ UNCHANGED <<active_stream_id, alerts_history, feed, env>>

\* set_params()
SetParams ==
    /\ engine # NoEngine
    /\ \E thrIn \in env.thr, opIn \in env.op :
         engine' =
             IF ~thrIn.num \/ ~opIn.num
             THEN engine
             ELSE [engine EXCEPT !.density_threshold = Clamp(0, 100, thrIn.v),
                                 !.heatmap_opacity = Clamp(30, 100, opIn.v)]
    /\ emitted' = <<>>
    /\ UNCHANGED <<now, source, cap, running, frame_id, frame, mqtt, workers,
                   starter, startsLeft, itersLeft, watch>>
    /\ UNCHANGED <<book, feed, env>>

Goto(w, pc) == [workers EXCEPT ![w].pc = pc]

\* video_loop, line 82: while state["running"]
W_Check(w) ==
    /\ workers[w].pc = "check"
    /\ running => itersLeft > 0
    /\ workers' = Goto(w, IF running THEN "read" ELSE "exit")
    /\ itersLeft' = IF running THEN itersLeft - 1 ELSE itersLeft
    /\ emitted' = <<>>
    /\ UNCHANGED <<now, source, cap, running, frame_id, frame, engine, mqtt,
                   starter, startsLeft, watch>>
    /\ UNCHANGED <<book, feed, env>>

\* Whether cap.read() can return a frame, and the frames it may return
CanRead(c) ==
    /\ c.opened /\ ~c.released
    /\ IsFinite(c.src) => c.pos < FileLen

ReadFrames(c) ==
    IF IsFinite(c.src) THEN {FileFrame(c.pos + 1)} ELSE LiveFrames(frame_id + 1)

\* video_loop, lines 83-87: the read of state["cap"]
W_Read(w) ==
    /\ workers[w].pc = "read"
    /\ \/ /\ cap = NoCap
          /\ workers' = Goto(w, "check")
          /\ cap' = cap
       \/ /\ cap # NoCap
          /\ CanRead(cap)
          /\ \E f \in ReadFrames(cap) :
               workers' = [workers EXCEPT ![w].pc = "process", ![w].img = f]
          /\ cap' = [cap EXCEPT !.pos = IF IsFinite(cap.src) THEN @ + 1 ELSE @]
       \/ /\ cap # NoCap
          /\ ~CanRead(cap) \/ ~IsFinite(cap.src)
          /\ workers' = [workers EXCEPT ![w].pc = "failed", ![w].img = NoFrame]
          /\ cap' = cap
    /\ emitted' = <<>>
    /\ UNCHANGED <<now, source, running, frame_id, frame, engine, mqtt,
                   starter, startsLeft, itersLeft, watch>>
    /\ UNCHANGED <<book, feed, env>>

\* video_loop, lines 88-103: a failed read
W_Failed(w) ==
    /\ workers[w].pc = "failed"
    /\ IF source.isStr
       THEN IF EndsWithAllowedExt(source)
            THEN /\ cap' = IF cap.released THEN cap ELSE [cap EXCEPT !.pos = 0]
                 /\ engine' = IF engine # NoEngine THEN reset(engine) ELSE engine
                 /\ watch' = IF engine # NoEngine
                             THEN [watch EXCEPT !.fed = <<>>] ELSE watch
                 /\ workers' = Goto(w, "check")
                 /\ emitted' = <<>>
            ELSE /\ cap' = release(cap)
                 /\ engine' = engine
                 /\ workers' = Goto(w, "backoff")
                 /\ emitted' = <<>>
                 /\ watch' = watch
       ELSE /\ workers' = Goto(w, "exit")
            /\ emitted' = <<>>
            /\ UNCHANGED <<cap, engine, watch>>
    /\ UNCHANGED <<now, source, running, frame_id, frame, mqtt, starter,
                   startsLeft, itersLeft>>
    /\ UNCHANGED <<book, feed, env>>

\* the reopen going straight back to the read, past the test of running
W_Reopen_NoCheck(w) ==
    /\ workers[w].pc = "backoff"
    /\ \E opened \in BOOLEAN :
         cap' = open_capture(source, opened, Session(w))
    /\ workers' = Goto(w, "read")
    /\ emitted' = <<>>
    /\ UNCHANGED <<now, source, running, frame_id, frame, engine, mqtt,
                   starter, startsLeft, itersLeft, watch>>
    /\ UNCHANGED <<book, feed, env>>

\* video_loop, lines 99-101: after the backoff the source is opened again
W_Reopen(w) ==
    /\ workers[w].pc = "backoff"
    /\ \E opened \in BOOLEAN :
         cap' = open_capture(source, opened, Session(w))
    /\ workers' = Goto(w, "check")
    /\ emitted' = <<>>
    /\ UNCHANGED <<now, source, running, frame_id, frame, engine, mqtt,
                   starter, startsLeft, itersLeft, watch>>
    /\ UNCHANGED <<book, feed, env>>

\* a > b for two smoothed densities
GreaterDensity(a, b) == a.sum * b.len > b.sum * a.len

\* density_samples.append(density), keeping the last MaxSamples
SamplesAppend(samples, d) ==
    IF Len(samples) >= MaxSamples THEN Tail(samples) \o <<d>>
    ELSE Append(samples, d)

\* video_loop, lines 108-137: the statistics and the alert log after a frame
\* of worker w left the engine as e
UpdateStats(w, e) ==
    LET samples == SamplesAppend(workers[w].density_samples, e.current_density)
        logged  == e.alert_active /\ e.last_alert_time # 0
        history == IF logged THEN Min2(alerts_history + 1, 1000)
                   ELSE alerts_history
    IN  [samples |-> samples,
         history |-> history,
         stats |-> [stats EXCEPT
                      !.peak_density =
                          IF GreaterDensity(e.current_density, @)
                          THEN e.current_density ELSE @,
                      !.avg_density = samples,
                      !.total_alerts = IF logged THEN history ELSE @]]

\* video_loop, lines 105-137: a frame goes through the engine; an exception
\* raised by process_frame ends the thread
W_Process(w) ==
    /\ workers[w].pc = "process"
    /\ frame_id' = frame_id + 1
    /\ \E mask \in Masks(frame_id + 1) :
         LET r == process_frame(engine, workers[w].img, mask, frame_id + 1, now)
             over == Over(r.eng.current_density, r.eng.density_threshold)
             u == UpdateStats(w, r.eng)
         IN  /\ engine' = r.eng
             /\ emitted' = r.events
             /\ watch' = [lastHigh |-> IF IsHigh(r.events) THEN now
                                       ELSE watch.lastHigh,
                          overSince |-> IF IsHigh(r.events) THEN TRUE
                                        ELSE watch.overSince /\ over,
                          still |-> watch.still /\ mask = EmptyMask,
                          fed |-> Append(watch.fed,
                                         [gray |-> workers[w].img.gray,
                                          mask |-> mask]),
                          trail |-> watch.trail \o Statuses(r.events)]
             /\ IF r.raised
                THEN /\ workers' = [workers EXCEPT
                                      ![w].pc = "raised",
                                      ![w].stale = IF running THEN @ ELSE @ + 1]
                     /\ UNCHANGED <<stats, alerts_history>>
                ELSE /\ workers' = [workers EXCEPT
                                      ![w].pc = "publish",
                                      ![w].processed = r.display,
                                      ![w].density_samples = u.samples,
                                      ![w].stale = IF running THEN @ ELSE @ + 1]
                     /\ stats' = u.stats
                     /\ alerts_history' = u.history
    /\ UNCHANGED <<now, source, cap, running, frame, mqtt, starter,
                   startsLeft, itersLeft>>
    /\ UNCHANGED <<active_stream_id, feed, env>>

\* video_loop, line 139: with state["lock"]
W_Acquire(w) ==
    /\ workers[w].pc = "publish"
    /\ lock = Free
    /\ lock' = HeldByWorker(w)
    /\ workers' = Goto(w, "locked")
    /\ emitted' = <<>>
    /\ UNCHANGED <<now, source, cap, running, frame_id, frame, engine, mqtt,
                   starter, startsLeft, itersLeft, watch>>
    /\ UNCHANGED <<book, readers, env>>

\* video_loop, lines 140-141: the slot is assigned and the lock released
W_Publish(w) ==
    /\ workers[w].pc = "locked"
    /\ frame' = workers[w].processed
    /\ lock' = Free
    /\ workers' = Goto(w, "check")
    /\ emitted' = <<>>
    /\ UNCHANGED <<now, source, cap, running, frame_id, engine, mqtt, starter,
                   startsLeft, itersLeft, watch>>
    /\ UNCHANGED <<book, readers, env>>

\* video_loop, lines 143-147
W_Exit(w) ==
    /\ workers[w].pc = "exit"
    /\ cap' = IF cap # NoCap THEN release(cap) ELSE cap
    /\ workers' = Goto(w, "done")
    /\ emitted' = <<>>
    /\ UNCHANGED <<now, source, running, frame_id, frame, engine, mqtt,
                   starter, startsLeft, itersLeft, watch>>
    /\ UNCHANGED <<book, feed, env>>

\* gen_mjpeg, line 151: with state["lock"]
R_Acquire(r) ==
    /\ readers[r].pc = "acquire"
    /\ lock = Free
    /\ lock' = HeldByReader(r)
    /\ readers' = [readers EXCEPT ![r].pc = "locked"]
    /\ emitted' = <<>>
    /\ UNCHANGED <<now, source, cap, running, frame_id, frame, engine, mqtt,
                   workers, starter, startsLeft, itersLeft, watch>>
    /\ UNCHANGED <<book, env>>

\* a generator that keeps the lock while it encodes or sleeps
R_Read_KeepsLock(r) ==
    /\ readers[r].pc = "locked"
    /\ readers' = [readers EXCEPT ![r].pc = "test", ![r].frame = frame]
    /\ emitted' = <<>>
    /\ UNCHANGED <<now, source, cap, running, frame_id, frame, engine, mqtt,
                   workers, starter, startsLeft, itersLeft, watch>>
    /\ UNCHANGED <<book, lock, env>>

\* gen_mjpeg, line 152: the slot is read and the lock released
R_Read(r) ==
    /\ readers[r].pc = "locked"
    /\ readers' = [readers EXCEPT ![r].pc = "test", ![r].frame = frame]
    /\ lock' = Free
    /\ emitted' = <<>>
    /\ UNCHANGED <<now, source, cap, running, frame_id, frame, engine, mqtt,
                   workers, starter, startsLeft, itersLeft, watch>>
    /\ UNCHANGED <<book, env>>

\* gen_mjpeg, lines 153-160: an empty slot is polled again after a sleep; a
\* frame is encoded and, when the encoder succeeds, yielded: the generator
\* is suspended at the yield with the frame it read
R_Emit(r) ==
    /\ readers[r].pc = "test"
    /\ IF readers[r].frame = NoFrame
       THEN readers' = [readers EXCEPT ![r].pc = "acquire"]
       ELSE \E ret \in BOOLEAN :
              readers' = [readers EXCEPT
                            ![r].pc = IF ret THEN "yield" ELSE "acquire"]
    /\ emitted' = <<>>
    /\ UNCHANGED <<now, source, cap, running, frame_id, frame, engine, mqtt,
                   workers, starter, startsLeft, itersLeft, watch>>
    /\ UNCHANGED <<book, lock, env>>

\* gen_mjpeg, line 160 to line 150: the response asks for the next part
R_Resume(r) ==
    /\ readers[r].pc = "yield"
    /\ readers' = [readers EXCEPT ![r].pc = "acquire"]
    /\ emitted' = <<>>
    /\ UNCHANGED <<now, source, cap, running, frame_id, frame, engine, mqtt,
                   workers, starter, startsLeft, itersLeft, watch>>
    /\ UNCHANGED <<book, lock, env>>

StartRequest ==
    \/ Start_Open
    \/ Start_Halt
    \/ Start_SetSource
    \/ Start_SetCap
    \/ Start_SetEngine
    \/ Start_Run

Check == \E w \in Workers : W_Check(w)
Read == \E w \in Workers : W_Read(w)
Failed == \E w \in Workers : W_Failed(w)
Reopen == \E w \in Workers : W_Reopen(w)
Process == \E w \in Workers : W_Process(w)
Acquire == \E w \in Workers : W_Acquire(w)
Publish == \E w \in Workers : W_Publish(w)
Exit == \E w \in Workers : W_Exit(w)

Worker ==
    Check \/ Read \/ Failed \/ Reopen \/ Process \/ Acquire \/ Publish \/ Exit

ReaderAcquire == \E r \in Readers : R_Acquire(r)
ReaderRead == \E r \in Readers : R_Read(r)
ReaderEmit == \E r \in Readers : R_Emit(r)
ReaderResume == \E r \in Readers : R_Resume(r)

Reader == ReaderAcquire \/ ReaderRead \/ ReaderEmit \/ ReaderResume

\* Every handler and the clock
Next == Tick \/ StartRequest \/ Stop \/ SetParams \/ Worker

\* The handlers that decide the loop's control flow; the clock stands still
NextLoop == StartRequest \/ Stop \/ Worker

\* The handlers that set the parameters, and the loop
NextParams == StartRequest \/ Stop \/ SetParams \/ Worker

\* The loop and the generators it feeds
NextFeed == StartRequest \/ Stop \/ Worker \/ Reader

InitSession == Boot(1, MaxIters, 0, PlainEnv)

\* One session: a single start(), every handler, the clock
Spec == InitSession /\ [][Next]_vars

\* Restarts: MaxStarts calls of start(), the clock standing still
SpecLoop == Init /\ [][NextLoop]_vars

\* Threads are scheduled: while some worker or a start() request already
\* made can take a step, one of them eventually does.
StartContinues ==
    Start_Halt \/ Start_SetSource \/ Start_SetCap \/ Start_SetEngine
        \/ Start_Run

Fairness == WF_vars(StartContinues \/ Worker)

\* One session with the default parameters and its stop(): the handlers
\* that decide the loop's control flow, under the scheduling above
InitStop ==
    Boot(1, MaxIters, 0,
         Env(FrameH, FrameW, Sources, {BadInput}, OpInputs, "still"))

SpecStop == InitStop /\ [][NextLoop]_vars /\ Fairness

\* Restarts of a stream with a short loop and the default parameters
InitRestart ==
    Boot(MaxStarts, MaxRestartIters, 0,
         Env(FrameH, FrameW, {StreamUrl}, {BadInput}, OpInputs, "still"))

SpecRestart == InitRestart /\ [][NextLoop]_vars

\* One session in front of a busy scene for a few frames, or in front of the
\* scripted scene for more frames than the density history holds
InitEngine ==
    \/ Boot(1, MaxShortIters, 0,
            Env(FrameH, FrameW, {VideoFile, StreamUrl}, {Num(-5)}, OpInputs,
                "busy"))
    \/ Boot(1, MaxLongIters, 0,
            Env(FrameH, FrameW, Sources, ThrInputs, OpInputs, "march"))

SpecEngine == InitEngine /\ [][NextLoop]_vars

\* The operator submits any of a wider set of form values
InitParams ==
    Boot(1, 1, 0,
         Env(FrameH, FrameW, Sources, WideThrInputs, WideOpInputs, "still"))

SpecParams == InitParams /\ [][NextParams]_vars

\* One session on a source of full-size frames or of low-resolution frames
InitRender ==
    \E w \in {FrameW, NarrowW} :
      Boot(1, MaxShortIters, 0,
           Env(FrameH, w, Sources, ThrInputs, OpInputs, "still"))

SpecRender == InitRender /\ [][NextLoop]_vars

\* One session watched by MaxReaders generators.  A thread that holds the
\* lock goes on to release it, and a worker waiting for the lock gets it
\* among the generators' acquisitions (a generator encodes or sleeps
\* between two of its acquisitions).
InitFeed ==
    Boot(1, MaxFeedIters, MaxReaders,
         Env(FrameH, FrameW, {StreamUrl}, {BadInput}, OpInputs, "still"))

FairnessFeed ==
    /\ SF_vars(Acquire)
    /\ WF_vars(Publish)
    /\ WF_vars(ReaderRead)

SpecFeed == InitFeed /\ [][NextFeed]_vars /\ FairnessFeed

----------------------------------------------------------------------------
(* Properties *)

\* the step in which worker w runs process_frame (lines 105-106)
ProcessStep(w) == workers[w].pc = "process" /\ workers'[w].pc = "publish"

\* the step in which worker w handles a failed read (lines 88-103)
FailedStep(w) == workers[w].pc = "failed" /\ workers'[w].pc # "failed"

\* current_density <= density_threshold, from the stored fields
AtOrBelow(e) ==
    e.current_density.sum * 100
        <= e.density_threshold * e.current_density.len * DensityDen

\* C1: a processed frame emits a HIGH event, sets alert_active and sets
\* last_alert_time to the current time exactly when the smoothed density it
\* computed is above the threshold and the alert was not active or the
\* cooldown has elapsed since last_alert_time; it then emits exactly one
\* event.
C1_HighRule ==
    [][\A w \in Workers :
         ProcessStep(w) =>
           LET fires == /\ ~AtOrBelow(engine')
                        /\ \/ ~engine.alert_active
                           \/ now - engine.last_alert_time >= engine.alert_cooldown
           IN  /\ IsHigh(emitted') <=> fires
               /\ fires => /\ engine'.alert_active
                           /\ engine'.last_alert_time = now
                           /\ Len(emitted') = 1
                           /\ emitted'[1].frame_id = frame_id']_vars

\* C1 witness: a HIGH event was just emitted, a cooldown or more after the
\* clock's first value, by a frame that was not the first of the history;
\* the alert is active and last_alert_time is the current time.
C1_Witness ==
    /\ IsHigh(emitted)
    /\ engine.alert_active
    /\ engine.last_alert_time = now
    /\ watch.lastHigh = now
    /\ Len(engine.density_history) >= 2
    /\ now >= StartTime + DefaultCooldown

\* C2: in one session, a HIGH event is not followed by another HIGH event
\* sooner than alert_cooldown seconds later when every frame in between was
\* over the threshold.
C2_HighCooldown ==
    [][(IsHigh(emitted') /\ watch.lastHigh # 0 /\ watch.overSince)
         => now - watch.lastHigh >= DefaultCooldown]_vars

\* C3: a frame processed while alert_active is true and whose smoothed
\* density is at or below the threshold emits no event and leaves the alert
\* state alone when fewer than 2 seconds have passed since last_alert_time,
\* and otherwise emits exactly one CLEAR event, clears alert_active and sets
\* last_alert_time to the current time.
C3_ClearHysteresis ==
    [][\A w \in Workers :
         (ProcessStep(w) /\ engine.alert_active /\ AtOrBelow(engine')) =>
           IF now - engine.last_alert_time < ClearHysteresis
           THEN /\ emitted' = <<>>
                /\ engine'.alert_active
                /\ engine'.last_alert_time = engine.last_alert_time
           ELSE /\ Len(emitted') = 1
                /\ IsClear(emitted')
                /\ ~engine'.alert_active
                /\ engine'.last_alert_time = now]_vars

\* C3 witness: a CLEAR event was just emitted, exactly 2 seconds after the
\* HIGH event that raised the alert.
C3_Witness ==
    /\ IsClear(emitted)
    /\ ~engine.alert_active
    /\ engine.last_alert_time = now
    /\ watch.lastHigh = now - ClearHysteresis

\* C4: whenever a step changes an engine's alert_active, that step emitted
\* the matching event (HIGH when it became true, CLEAR when it became false)
\* and set last_alert_time to the current time.
C4_AlertOnlyByTransition ==
    [][(engine # NoEngine /\ engine' # NoEngine
          /\ engine'.alert_active # engine.alert_active)
         => /\ engine'.last_alert_time = now
            /\ IF engine'.alert_active THEN IsHigh(emitted')
               ELSE IsClear(emitted')]_vars

\* the workers inside the body of the while loop
Iterating ==
    {w \in Workers :
       workers[w].pc \in {"read", "failed", "backoff", "process", "publish",
                          "locked"}}

\* C5: at most one video_loop worker is inside the loop body at any moment.
C5_OneWorkerIterates == Cardinality(Iterating) <= 1

\* C6: when start() opens its capture handle, every earlier worker has left
\* its loop and terminated and the handle of the previous session (if any)
\* has been released.
C6_ReleaseBeforeAcquire ==
    [][(starter.pc = "idle" /\ starter'.pc = "opened")
         => /\ \A w \in Workers : workers[w].pc = "done"
            /\ cap # NoCap => cap.released]_vars

\* C7: a worker never reads a capture handle that has been released, and a
\* terminating worker releases only a handle opened for its own session.
C7_NoDanglingRead ==
    [][\A w \in Workers :
         /\ (workers[w].pc = "read" /\ workers'[w].pc # "read" /\ cap # NoCap)
              => ~cap.released
         /\ (workers[w].pc = "exit" /\ workers'[w].pc = "done" /\ cap # NoCap)
              => cap.owner = Session(w)]_vars

\* C8: if from some point on running stays false (stop() with no later
\* start()), every worker eventually terminates with the capture handle
\* released; and a worker processes at most one frame while running is false.
C8_CooperativeStop ==
    /\ (<>[](~running))
         => <>[](/\ \A w \in Workers : workers[w].pc = "done"
                 /\ cap # NoCap => cap.released)
    /\ [](\A w \in Workers : workers[w].stale <= 1)

\* C8 witness: after stop() a worker has finished the frame it had in
\* progress, left its loop, released the handle and terminated.
C8_Witness ==
    /\ ~running
    /\ starter.pc = "idle"
    /\ startsLeft = 0
    /\ Workers # {}
    /\ \A w \in Workers : workers[w].pc = "done"
    /\ \E w \in Workers : workers[w].stale = 1
    /\ cap # NoCap /\ cap.released

C10_LiveSourceRetries ==
    [][\A w \in Workers :
         (FailedStep(w) /\ running
            /\ ~(source.isStr /\ EndsWithAllowedExt(source)))
           => /\ workers'[w].pc = "backoff"
              /\ cap'.released]_vars

\* the step in which a start() request ends because its source did not open
FailedStart ==
    /\ starter.pc = "idle"
    /\ starter'.pc = "idle"
    /\ startsLeft' = startsLeft - 1

\* C11: a start() whose source cannot be opened leaves the running flag, the
\* source, the capture handle, the engine, the sink, the frame buffer, the
\* frame counter, the active stream id, the statistics and the alert log as
\* they were, spawns no worker and moves no worker.
C11_FailedStartNoEffect ==
    [][FailedStart =>
         /\ UNCHANGED <<running, source, cap, engine, mqtt, frame, frame_id>>
         /\ UNCHANGED <<active_stream_id, stats, alerts_history>>
         /\ workers' = workers]_vars

\* C11 witness: a start() has just failed while the session started before
\* is running with a frame in its buffer and its worker in the loop.
C11_Witness ==
    /\ starter.pc = "idle"
    /\ starter.flash = "Cannot open video source"
    /\ running
    /\ frame # NoFrame
    /\ \E w \in Workers : workers[w].pc = "process"

\* C12: after a start() ended because its source did not open, the capture
\* handle that call created has been released.
C12_FailedStartReleases ==
    (starter.pc = "idle" /\ starter.flash = "Cannot open video source")
      => starter.cap.released

\* the nearest value of lo..hi to v
Nearest(lo, hi, v) == IF v < lo THEN lo ELSE IF v > hi THEN hi ELSE v

\* C13: the engine's threshold is always within 0..100 percent and its
\* opacity within 30..100 percent; start() gives the engine the nearest
\* in-range values to the numbers submitted (the number itself when it is
\* in range), and a change of the live engine's parameters sets both to the
\* nearest in-range values to some pair of numbers submitted.
C13_ParamsInRange ==
    /\ [](engine # NoEngine =>
            /\ engine.density_threshold \in 0..100
            /\ engine.heatmap_opacity \in 30..100)
    /\ []((starter.pc # "idle" /\ starter.form.thr.num /\ starter.form.op.num)
            => /\ starter.params.thr = Nearest(0, 100, starter.form.thr.v)
               /\ starter.params.op = Nearest(30, 100, starter.form.op.v))
    /\ [][(starter.pc = "cap_set" /\ starter'.pc = "installed")
            => /\ engine'.density_threshold = starter.params.thr
               /\ engine'.heatmap_opacity = starter.params.op]_vars
    /\ [][(engine # NoEngine /\ engine' # NoEngine /\ starter' = starter
             /\ (engine'.density_threshold # engine.density_threshold
                   \/ engine'.heatmap_opacity # engine.heatmap_opacity))
            => \E thrIn \in env.thr, opIn \in env.op :
                 /\ thrIn.num /\ opIn.num
                 /\ engine'.density_threshold = Nearest(0, 100, thrIn.v)
                 /\ engine'.heatmap_opacity = Nearest(30, 100, opIn.v)]_vars

\* C13 witness: the live engine holds the in-range threshold submitted,
\* unchanged, and the opacity floor in place of a smaller number submitted.
C13_Witness ==
    /\ engine # NoEngine
    /\ running
    /\ engine.density_threshold = 60
    /\ engine.heatmap_opacity = 30

\* The frames fed to the engine since its construction or last reset, read
\* on their own: frame k is a pan when it differs from frame k-1 in more
\* than 60% of the pixels; its grid mean is the foreground share of the grid
FedCount == Len(watch.fed)
PanAt(k) ==
    /\ k > 1
    /\ 10 * AbsDiff(watch.fed[k-1].gray, watch.fed[k].gray) > 6 * FramePixels
GridMean(k) == 2 * watch.fed[k].mask.inGrid
RawAt(k) == IF PanAt(k) THEN GridMean(k) \div 2 ELSE GridMean(k)
TotalFg(k) == watch.fed[k].mask.inGrid + watch.fed[k].mask.outGrid
Window == Min2(FedCount, HistoryMaxLen)
WindowRaw == [i \in 1..Window |-> RawAt(FedCount - Window + i)]

\* C14: the density history never holds more than 15 entries, and it holds
\* the raw densities of the last min(n, 15) of the n frames processed since
\* the engine's construction or last reset, oldest first.
C14_HistoryBoundedFifo ==
    engine # NoEngine =>
      /\ Len(engine.density_history) <= HistoryMaxLen
      /\ engine.density_history = WindowRaw

\* C14 witness: more than 15 frames went through the engine since its
\* construction, the first of them has been evicted, and each of the 15
\* entries kept differs from the next.
C14_Witness ==
    /\ engine # NoEngine
    /\ FedCount > HistoryMaxLen
    /\ Len(engine.density_history) = HistoryMaxLen
    /\ engine.density_history[1] = RawAt(FedCount - HistoryMaxLen + 1)
    /\ engine.density_history[1] # RawAt(1)
    /\ \A i \in 1..(HistoryMaxLen - 1) :
         engine.density_history[i] # engine.density_history[i + 1]

\* C15: once a frame has been processed since the engine's construction or
\* last reset, current_density is the mean of the raw densities of the last
\* min(n, 15) frames processed since then, a pan frame counting with half
\* its grid mean; and a HIGH event is emitted only when that mean is above
\* the threshold.
C15_SmoothedDensity ==
    (engine # NoEngine /\ FedCount >= 1) =>
      /\ engine.current_density.len = Window
      /\ engine.current_density.sum = SumSeq(WindowRaw)
      /\ IsHigh(emitted) =>
            SumSeq(WindowRaw) * 100
              > engine.density_threshold * Window * DensityDen

\* C15 witness: the window is full, it holds both a pan frame and a frame
\* that is not one, and the mean is above the threshold with the newest
\* grid mean alone below it.
C15_Witness ==
    /\ engine # NoEngine
    /\ FedCount > HistoryMaxLen
    /\ engine.current_density.len = HistoryMaxLen
    /\ \E k \in 1..FedCount : k > FedCount - Window /\ PanAt(k)
    /\ engine.current_density.sum = SumSeq(WindowRaw)
    /\ engine.current_density.sum # Window * RawAt(FedCount)

\* C16: after a processed frame, the occupant estimate is at least 1 when
\* the frame's mask has foreground pixels, and it is 0 only when the mask
\* has none.
C16_PeopleFloor ==
    (engine # NoEngine /\ FedCount >= 1) =>
      /\ TotalFg(FedCount) > 0 => engine.estimated_people >= 1
      /\ engine.estimated_people = 0 => TotalFg(FedCount) = 0

\* the estimate of a frame that is not a pan
Unflagged(total_fg) ==
    Max2(1, (2 * Max2(1, total_fg \div PixelsPerPerson)) \div 7)

\* C17: after a processed frame that is a pan, the newest entry of the
\* density history is exactly half of the frame's grid mean and the
\* occupant estimate is the floor of half of the estimate the mask yields
\* without the flag; after a frame that is not a pan they are the grid mean
\* and that estimate.
C17_PanAdjustment ==
    (engine # NoEngine /\ FedCount >= 1) =>
      LET newest == engine.density_history[Len(engine.density_history)]
          e == Unflagged(TotalFg(FedCount))
      IN  IF PanAt(FedCount)
          THEN /\ 2 * newest = GridMean(FedCount)
               /\ engine.estimated_people = e \div 2
          ELSE /\ newest = GridMean(FedCount)
               /\ engine.estimated_people = e

\* C17 witness: a pan frame whose mask covers everything was processed: the
\* entry is half of a full grid and the estimate half of an odd number.
C17_Witness ==
    /\ engine # NoEngine
    /\ FedCount >= 2
    /\ PanAt(FedCount)
    /\ watch.fed[FedCount].mask = FullMask
    /\ engine.density_history[Len(engine.density_history)] = GridPixels
    /\ Unflagged(TotalFg(FedCount)) % 2 = 1
    /\ engine.estimated_people = Unflagged(TotalFg(FedCount)) \div 2

\* a newly constructed engine fed the frames fs one after the other
RECURSIVE Replay(_, _)
Replay(e, fs) ==
    IF fs = <<>> THEN [eng |-> e, pan |-> FALSE]
    ELSE LET r == process_frame(e, [idx |-> 0, gray |-> Head(fs).gray],
                                Head(fs).mask, 0, 0)
         IN  IF Tail(fs) = <<>> THEN [eng |-> r.eng, pan |-> r.pan]
             ELSE Replay(r.eng, Tail(fs))

\* C18: right after a reset the engine has no previous frame, a fresh
\* background model and an empty history; and after every frame processed
\* since, the history, the smoothed density, the occupant estimate, the
\* previous-frame reference and the pan flag shown on the frame are those of
\* a newly constructed engine fed the frames processed since the reset; the
\* first of them is no pan.
C18_ResetAsNew ==
    /\ [][\A w \in Workers :
            (FailedStep(w) /\ workers'[w].pc = "check" /\ engine # NoEngine)
              => /\ engine'.prev_gray = NoGray
                 /\ engine'.bg_subtractor = "fresh"
                 /\ engine'.density_history = <<>>]_vars
    /\ []((engine # NoEngine /\ FedCount >= 1) =>
            LET twin == Replay(NewEngine(engine.density_threshold,
                                         engine.heatmap_opacity), watch.fed)
            IN  /\ engine.density_history = twin.eng.density_history
                /\ engine.current_density = twin.eng.current_density
                /\ engine.estimated_people = twin.eng.estimated_people
                /\ engine.prev_gray = twin.eng.prev_gray
                /\ engine.bg_subtractor = twin.eng.bg_subtractor
                /\ FedCount = 1 => ~twin.pan
                /\ \A w \in Workers :
                     workers[w].pc = "publish"
                       => workers[w].processed.panning = twin.pan)

\* C18 witness: the engine was reset after a scene cut with foreground, and
\* the frame processed since, which differs from the last frame before the
\* reset in every pixel, is shown without the pan flag.
C18_Witness ==
    /\ engine # NoEngine
    /\ IsFinite(source)
    /\ frame_id = FileLen + 1
    /\ FedCount = 1
    /\ engine.density_history = <<2 * GridPixels>>
    /\ \E w \in Workers :
         workers[w].pc = "publish" /\ ~workers[w].processed.panning

\* C19: every frame that enters process_frame leaves the worker in its loop,
\* with the frame's density in the history and the alert state machine
\* stepped on it: alert_active and last_alert_time are what the HIGH and
\* CLEAR rules give for the new smoothed density, whatever happens to the
\* event at the sink and to the composited image.
C19_FailuresDoNotStopAnalytics ==
    [][\A w \in Workers :
         (workers[w].pc = "process" /\ workers'[w].pc # "process") =>
           LET over  == ~AtOrBelow(engine')
               high  == over /\ (~engine.alert_active
                                   \/ now - engine.last_alert_time
                                        >= engine.alert_cooldown)
               clear == ~over /\ engine.alert_active
                          /\ now - engine.last_alert_time >= ClearHysteresis
           IN  /\ workers'[w].pc = "publish"
               /\ Len(watch'.fed) = Len(watch.fed) + 1
               /\ engine'.current_density.sum = SumSeq(engine'.density_history)
               /\ engine'.alert_active =
                     (IF high THEN TRUE ELSE IF clear THEN FALSE
                      ELSE engine.alert_active)
               /\ engine'.last_alert_time =
                     (IF high \/ clear THEN now ELSE engine.last_alert_time)]_vars

C21_EventAlternation ==
    /\ [](/\ watch.trail # <<>> => watch.trail[1] = "HIGH"
          /\ \A i \in 1..(Len(watch.trail) - 1) :
               ~(watch.trail[i] = "CLEAR" /\ watch.trail[i + 1] = "CLEAR"))
    /\ [][/\ Len(emitted') <= 1
          /\ IsClear(emitted') => /\ engine # NoEngine
                                   /\ engine.alert_active
                                   /\ ~engine'.alert_active
          /\ \A w \in Workers :
               ProcessStep(w) =>
                 watch'.trail = watch.trail \o Statuses(emitted')]_vars

\* C21 witness: the engine has emitted HIGH, CLEAR, HIGH, CLEAR, the last of
\* them in the frame just processed.
C21_Witness ==
    /\ IsClear(emitted)
    /\ watch.trail = <<"HIGH", "CLEAR", "HIGH", "CLEAR">>
    /\ ~engine.alert_active

\* the worker start() spawned last, the one of the current session
CurrentWorker == Len(workers)

\* a worker that is still inside video_loop's while loop
InLoop(w) == workers[w].pc \notin {"exit", "done", "raised"}

\* C22: whenever the running flag is true, the worker of the current session
\* is still executing its loop.
C22_RunningReflectsWorker ==
    running => (workers # <<>> /\ InLoop(CurrentWorker))

\* the sessions start() has installed (lines 363-369) so far: one per worker
\* spawned, and the one whose worker is about to be spawned
Installed == Len(workers) + (IF starter.pc = "installed" THEN 1 ELSE 0)

\* the step in which worker w assigns the frame slot (lines 139-140)
PublishStep(w) == workers[w].pc = "locked" /\ workers'[w].pc = "check"

\* C23: once start() has installed a session the frame slot is empty until
\* that session has processed a frame, and the slot is written only by the
\* worker of the session installed last: a worker of an earlier session
\* never writes it after the new session emptied it.
C23_NoStaleFrame ==
    /\ [](frame_id = 0 => frame = NoFrame)
    /\ [][\A w \in Workers : PublishStep(w) => Session(w) = Installed]_vars

====
